---- MODULE Spec2Model ----
(***************************************************************************)
(* A model of yu-news-hub's build pipeline (scripts/build.py): the URL     *)
(* canonicalizer, the two source adapters, the age filter, the             *)
(* deduplicator, the sort, the topic clusterer with its score, and main's  *)
(* loop over the feeds.                                                    *)
(*                                                                         *)
(* Text is modelled as a sequence of atoms.  A query string is a sequence  *)
(* of raw atoms ("&" and "=" are the separators, "+", "%26" and "%3D" the  *)
(* escapes of " ", "&" and "="); a title is a sequence of words, blanks    *)
(* and tags.  Timestamps are whole hours.  Weights are whole numbers, so   *)
(* that 0.9 + 0.1 * w is (9 + w) / 10, and a score is an exact fraction.   *)
(* The fields no modelled operation reads (region, lang, tags, summary)    *)
(* are left out of the item records.                                       *)
(***************************************************************************)
EXTENDS Integers, Sequences, FiniteSets, TLC

VARIABLES
    pc,                  \* where main (or the unit under test) stands
    max_age_days,        \* defaults.max_age_days
    max_items_per_feed,  \* defaults.max_items_per_feed
    fi,                  \* index of the next feed of main's loop
    all_items,           \* main's item pool, then the final item list
    failures,            \* main's failure list
    batches,             \* history: what each processed feed added to the pool
    fetch_err,           \* history: the processed feeds one of whose fetches failed
    clusters,            \* build_topics' cluster list
    members,             \* history: per cluster, the positions of the items assigned
    ci,                  \* position of the next item build_topics assigns
    topics,              \* build_topics' result
    inp,                 \* the argument of the unit under test
    outp                 \* the result of the unit under test

vars == <<pc, max_age_days, max_items_per_feed, fi, all_items, failures, batches,
          fetch_err, clusters, members, ci, topics, inp, outp>>

main_vars == <<max_age_days, max_items_per_feed, fi, all_items, failures, batches,
               fetch_err, clusters, members, ci, topics>>

(***************************************************************************)
(* Bounds of the model.                                                    *)
(***************************************************************************)
MaxQueryLen == 4

MaxUnitItems == 3

MaxEntries == 3

MaxChildren == 7

MaxItemsArg == 3

MaxClusterItems == 2

MaxFeedEntries == 2

(***************************************************************************)
(* Sequences.                                                              *)
(***************************************************************************)
SeqsUpTo(S, n) == UNION {[1..k -> S] : k \in 0..n}

Range(s) == {s[i] : i \in DOMAIN s}

RECURSIVE Concat(_)
Concat(ss) == IF ss = <<>> THEN <<>> ELSE Head(ss) \o Concat(Tail(ss))

Min(S) == CHOOSE x \in S : \A y \in S : x <= y

(***************************************************************************)
(* str.lower on one atom.                                                  *)
(***************************************************************************)
Lower(a) ==
    CASE a = "MC_" -> "mc_"
      [] a = "Fed" -> "fed"
      [] a = "FED" -> "fed"
      [] a = "Local" -> "local"
      [] OTHER -> a

(***************************************************************************)
(* URLs.  A URL is what urlsplit makes of it: ok is FALSE for a string     *)
(* urlsplit raises ValueError on (an unbalanced bracket in the host);      *)
(* base stands for scheme, netloc, path and fragment, which                *)
(* canonicalize_url hands from urlsplit to urlunsplit untouched; query is  *)
(* the raw query string.                                                   *)
(***************************************************************************)
QueryAtoms == {"utm_", "MC_", "id", "=", "&", "+", "%26", "%3D"}

EmptyUrl == [ok |-> TRUE, base |-> "", query |-> <<>>]

\* TRACKING_PARAMS_RE's alternatives.
TrackingPrefixes == {"utm_", "spm", "from", "share", "mkt_", "mc_"}

\* TRACKING_PARAMS_RE.match(k): the pattern is anchored at the start and
\* case-insensitive; the tracking atoms are whole prefixes of the pattern.
TrackingMatch(k) == k # <<>> /\ Lower(k[1]) \in TrackingPrefixes

\* qs.split("&"), and name_value.split("=", 1).
RECURSIVE SplitAll(_, _)
SplitAll(s, sep) ==
    IF \A i \in DOMAIN s : s[i] # sep THEN <<s>>
    ELSE LET i == Min({j \in DOMAIN s : s[j] = sep})
         IN  <<SubSeq(s, 1, i - 1)>> \o SplitAll(SubSeq(s, i + 1, Len(s)), sep)

\* unquote(x.replace("+", " ")).
UnquoteAtom(a) ==
    CASE a = "+" -> " "
      [] a = "%26" -> "&"
      [] a = "%3D" -> "="
      [] OTHER -> a

Unquote(s) == [i \in DOMAIN s |-> UnquoteAtom(s[i])]

\* quote_plus on one character.
QuoteAtom(a) ==
    CASE a = " " -> "+"
      [] a = "&" -> "%26"
      [] a = "=" -> "%3D"
      [] OTHER -> a

quote_plus(s) == [i \in DOMAIN s |-> QuoteAtom(s[i])]

\* parse_qsl(qs, keep_blank_values=True): empty fields are skipped, a field
\* without "=" gets the blank value, names and values are unquoted.
RECURSIVE ParseFields(_)
ParseFields(fields) ==
    IF fields = <<>> THEN <<>>
    ELSE LET nv == Head(fields)
             eq == {j \in DOMAIN nv : nv[j] = "="}
             name == IF eq = {} THEN nv ELSE SubSeq(nv, 1, Min(eq) - 1)
             value == IF eq = {} THEN <<>> ELSE SubSeq(nv, Min(eq) + 1, Len(nv))
         IN  IF nv = <<>> THEN ParseFields(Tail(fields))
             ELSE <<[k |-> Unquote(name), v |-> Unquote(value)]>>
                  \o ParseFields(Tail(fields))

parse_qsl(qs) == IF qs = <<>> THEN <<>> ELSE ParseFields(SplitAll(qs, "&"))

\* A urlencode that does not quote what it joins.
RECURSIVE urlencode_unquoted(_)
urlencode_unquoted(q) ==
    IF q = <<>> THEN <<>>
    ELSE LET one == Head(q).k \o <<"=">> \o Head(q).v
         IN  IF Len(q) = 1 THEN one ELSE one \o <<"&">> \o urlencode_unquoted(Tail(q))

\* urlencode(q, doseq=True) on string pairs: quote_plus(k) = quote_plus(v),
\* joined by "&".
RECURSIVE urlencode(_)
urlencode(q) ==
    IF q = <<>> THEN <<>>
    ELSE LET one == quote_plus(Head(q).k) \o <<"=">> \o quote_plus(Head(q).v)
         IN  IF Len(q) = 1 THEN one ELSE one \o <<"&">> \o urlencode(Tail(q))

RECURSIVE DropTracking(_)
DropTracking(q) ==
    IF q = <<>> THEN <<>>
    ELSE IF TrackingMatch(Head(q).k) THEN DropTracking(Tail(q))
    ELSE <<Head(q)>> \o DropTracking(Tail(q))

\* canonicalize_url: the except branch returns the argument itself.
canonicalize_url(url) ==
    IF ~url.ok THEN url
    ELSE [url EXCEPT !.query = urlencode(DropTracking(parse_qsl(url.query)))]

(***************************************************************************)
(* Titles.  A title is a sequence of atoms: words, the blank " ", the      *)
(* punctuation mark "-" and the tag "<b>".                                 *)
(***************************************************************************)
AtomLen(a) ==
    CASE a \in {" ", "-", "a"} -> 1
      [] a \in {"<b>", "Fed", "fed", "FED"} -> 3
      [] a = "team" -> 4
      [] a \in {"rates", "again", "Local", "local"} -> 5
      [] a = "raises" -> 6
      [] OTHER -> 2

IsWord(a) == a \notin {" ", "-", "<b>"}

\* len(title), in characters.
RECURSIVE TitleLen(_)
TitleLen(t) == IF t = <<>> THEN 0 ELSE AtomLen(Head(t)) + TitleLen(Tail(t))

\* re.sub(r"\s+", " ", text)
RECURSIVE CollapseWs(_)
CollapseWs(t) ==
    IF Len(t) < 2 THEN t
    ELSE IF t[1] = " " /\ t[2] = " " THEN CollapseWs(Tail(t))
    ELSE <<t[1]>> \o CollapseWs(Tail(t))

\* str.strip()
RECURSIVE StripLeft(_)
StripLeft(t) == IF t # <<>> /\ Head(t) = " " THEN StripLeft(Tail(t)) ELSE t

RECURSIVE StripRight(_)
StripRight(t) ==
    IF t # <<>> /\ t[Len(t)] = " " THEN StripRight(SubSeq(t, 1, Len(t) - 1)) ELSE t

Strip(t) == StripRight(StripLeft(t))

\* clean_html: every tag becomes a blank, runs of blanks collapse, the ends
\* are stripped.
clean_html(text) ==
    Strip(CollapseWs([i \in DOMAIN text |-> IF text[i] = "<b>" THEN " " ELSE text[i]]))

\* dedupe's title key: re.sub(r"\s+", " ", title).strip().lower()
NormTitle(t) == LET c == Strip(CollapseWs(t)) IN [i \in DOMAIN c |-> Lower(c[i])]

\* WORD_RE.findall(title.lower()): the maximal runs of word characters, each
\* run one token (the sequence of its lowercased atoms).  The tag "<b>"
\* holds the one-letter run "b".
RECURSIVE WordRuns(_, _)
WordRuns(t, cur) ==
    IF t = <<>> THEN (IF cur = <<>> THEN <<>> ELSE <<cur>>)
    ELSE IF IsWord(Head(t)) THEN WordRuns(Tail(t), Append(cur, Lower(Head(t))))
    ELSE (IF cur = <<>> THEN <<>> ELSE <<cur>>)
         \o (IF Head(t) = "<b>" THEN <<<<"b">>>> ELSE <<>>)
         \o WordRuns(Tail(t), <<>>)

TokenLen(tok) == IF tok = <<"b">> THEN 1 ELSE TitleLen(tok)

\* tokenize: tokens shorter than two characters are dropped.
tokenize(title) == SelectSeq(WordRuns(title, <<>>), LAMBDA tok : TokenLen(tok) >= 2)

\* jaccard, as the fraction <<inter, union>>; <<0, 1>> is 0.0.
jaccard(a, b) ==
    LET sa == Range(a)
        sb == Range(b)
    IN  IF sa = {} \/ sb = {} THEN <<0, 1>>
        ELSE <<Cardinality(sa \cap sb), Cardinality(sa \cup sb)>>

\* j >= 0.55
AtLeastThreshold(j) == 100 * j[1] >= 55 * j[2]

(***************************************************************************)
(* Time and dates.  A published field is None, a string dateutil cannot    *)
(* parse, or the ISO text of an instant (whole hours after the epoch).     *)
(***************************************************************************)
HoursPerDay == 24

NowDays == 10

\* now_utc()
Now == NowDays * HoursPerDay

Epoch == 0

NonePub == [k |-> "none", t |-> 0]

BadPub == [k |-> "bad", t |-> 0]

IsoPub(t) == [k |-> "iso", t |-> t]

DefaultMaxAgeDays == 7

DefaultWeight == 1

\* sha1 is taken to be injective: the digest is named by its argument.
sha1(a, b) == [a |-> a, b |-> b]

(***************************************************************************)
(* filter_by_age                                                           *)
(***************************************************************************)
\* A filter whose cutoff is exclusive.
RECURSIVE filter_by_age_exclusive(_, _)
filter_by_age_exclusive(items, days) ==
    IF items = <<>> THEN <<>>
    ELSE LET it == Head(items)
             rest == filter_by_age_exclusive(Tail(items), days)
         IN  IF it.published.k # "iso" \/ it.published.t > Now - days * HoursPerDay
             THEN <<it>> \o rest
             ELSE rest

RECURSIVE filter_by_age(_, _)
filter_by_age(items, days) ==
    IF items = <<>> THEN <<>>
    ELSE LET it == Head(items)
             cutoff == Now - days * HoursPerDay
             rest == filter_by_age(Tail(items), days)
         IN  IF it.published.k = "none" THEN <<it>> \o rest
             ELSE IF it.published.k = "bad" THEN <<it>> \o rest
             ELSE IF it.published.t >= cutoff THEN <<it>> \o rest
             ELSE rest

(***************************************************************************)
(* dedupe                                                                  *)
(***************************************************************************)
\* A key that tells the sources apart.
DedupeKey_per_source(it) ==
    <<canonicalize_url(it.link), NormTitle(it.title), it.source_id>>

DedupeKey(it) == <<canonicalize_url(it.link), NormTitle(it.title)>>

RECURSIVE DedupeLoop(_, _)
DedupeLoop(items, seen) ==
    IF items = <<>> THEN <<>>
    ELSE LET key == DedupeKey(Head(items))
         IN  IF key \in seen THEN DedupeLoop(Tail(items), seen)
             ELSE <<Head(items)>> \o DedupeLoop(Tail(items), seen \cup {key})

dedupe(items) == DedupeLoop(items, {})

(***************************************************************************)
(* main's sort: all_items.sort(key=sort_key, reverse=True), a stable sort, *)
(* so items of equal key keep their order.                                 *)
(***************************************************************************)
sort_key(it) ==
    <<IF it.published.k = "iso" THEN it.published.t ELSE Epoch, it.weight>>

KeyLess(a, b) == a[1] < b[1] \/ (a[1] = b[1] /\ a[2] < b[2])

RECURSIVE InsertDesc(_, _)
InsertDesc(sorted, it) ==
    IF sorted = <<>> THEN <<it>>
    ELSE IF KeyLess(sort_key(Head(sorted)), sort_key(it)) THEN <<it>> \o sorted
    ELSE <<Head(sorted)>> \o InsertDesc(Tail(sorted), it)

RECURSIVE SortLoop(_, _)
SortLoop(items, sorted) ==
    IF items = <<>> THEN sorted
    ELSE SortLoop(Tail(items), InsertDesc(sorted, Head(items)))

\* A sort that leaves the list as it is.
sort_items_unsorted(items) == items

sort_items(items) == SortLoop(items, <<>>)

(***************************************************************************)
(* Unit specification of canonicalize_url: the argument is any URL over    *)
(* the query atoms, the one step applies the function.                     *)
(***************************************************************************)
UnitIdle ==
    /\ max_age_days = 0 /\ max_items_per_feed = 0 /\ fi = 0
    /\ all_items = <<>> /\ failures = <<>> /\ batches = <<>> /\ fetch_err = {}
    /\ clusters = <<>> /\ members = <<>> /\ ci = 0 /\ topics = <<>>

CanonInputs ==
    [ok : BOOLEAN, base : {"h/p"}, query : SeqsUpTo(QueryAtoms, MaxQueryLen)]

InitCanon ==
    /\ UnitIdle
    /\ pc = "call"
    /\ inp \in CanonInputs
    /\ outp = inp

RunCanon ==
    /\ pc = "call"
    /\ pc' = "ret"
    /\ outp' = canonicalize_url(inp)
    /\ UNCHANGED <<inp, main_vars>>

SpecCanon == InitCanon /\ [][RunCanon]_vars

(***************************************************************************)
(* Items.  An item is the dict the adapters build.                         *)
(***************************************************************************)
SourceName(id) ==
    CASE id = "a" -> "A" [] id = "b" -> "B" [] id = "r" -> "Reuters" [] OTHER -> "X"

Item(source_id, weight, id_link, link, title, published) ==
    [id |-> sha1(source_id, id_link), title |-> title, link |-> link,
     published |-> published, source_id |-> source_id,
     source |-> SourceName(source_id), weight |-> weight]

UrlPlain == [ok |-> TRUE, base |-> "h/a", query |-> <<>>]

UrlTracked == [ok |-> TRUE, base |-> "h/a", query |-> <<"utm_", "=", "id">>]

UrlOther == [ok |-> TRUE, base |-> "h/b", query |-> <<"id", "=", "id">>]

TitleX == <<"Fed", " ", "raises", " ", "rates">>

TitleXLoose == <<"fed", " ", " ", "raises", " ", "rates">>

TitleLocal == <<"Local", " ", "team">>

(***************************************************************************)
(* Unit specification of filter_by_age and dedupe: the argument is any     *)
(* short item list over a few links, titles, sources and dates.            *)
(***************************************************************************)
UnitPubs ==
    {NonePub, BadPub, IsoPub(Now), IsoPub(Now - 6 * HoursPerDay),
     IsoPub(Now - DefaultMaxAgeDays * HoursPerDay),
     IsoPub(Now - DefaultMaxAgeDays * HoursPerDay - 1),
     IsoPub(Now - 8 * HoursPerDay)}

FilterItems == {Item("a", DefaultWeight, UrlPlain, UrlPlain, TitleX, p) : p \in UnitPubs}

DedupeItems ==
    {Item(s, DefaultWeight, l, l, t, NonePub) :
        s \in {"a", "b"}, l \in {UrlPlain, UrlTracked, UrlOther},
        t \in {TitleX, TitleXLoose, TitleLocal}}

InitUnits ==
    /\ UnitIdle
    /\ pc = "call"
    /\ \/ inp \in [fn : {"filter_by_age"}, items : SeqsUpTo(FilterItems, MaxUnitItems),
                   days : {0, DefaultMaxAgeDays}]
       \/ inp \in [fn : {"dedupe"}, items : SeqsUpTo(DedupeItems, MaxUnitItems),
                   days : {0}]
    /\ outp = <<>>

RunFilter ==
    /\ pc = "call" /\ inp.fn = "filter_by_age"
    /\ pc' = "ret"
    /\ outp' = filter_by_age(inp.items, inp.days)
    /\ UNCHANGED <<inp, main_vars>>

RunDedupe ==
    /\ pc = "call" /\ inp.fn = "dedupe"
    /\ pc' = "ret"
    /\ outp' = dedupe(inp.items)
    /\ UNCHANGED <<inp, main_vars>>

SpecUnits == InitUnits /\ [][RunFilter \/ RunDedupe]_vars

(***************************************************************************)
(* Feeds and the two adapters.                                             *)
(*                                                                         *)
(* A raw entry is what a feed document holds for one article: a link, a    *)
(* title and a date text.  parse_date is modelled on one date field: a     *)
(* text that does not parse leaves published absent.                       *)
(***************************************************************************)
FeedA == [id |-> "a", name |-> "A", url |-> "u/a", type |-> "rss", weight |-> DefaultWeight]

FeedB == [id |-> "b", name |-> "B", url |-> "u/b", type |-> "rss", weight |-> DefaultWeight]

FeedR ==
    [id |-> "r", name |-> "Reuters", url |-> "u/r",
     type |-> "reuters_news_sitemap_index", weight |-> 2]

FeedX == [id |-> "x", name |-> "X", url |-> "u/x", type |-> "atom", weight |-> DefaultWeight]

\* `not link`: the empty string.
IsEmptyStr(url) == url.ok /\ url.base = "" /\ url.query = <<>>

\* parse_date, and the sitemap adapter's date parsing: dt.isoformat() or None.
PublishedOf(pub) == IF pub.k = "iso" THEN IsoPub(pub.t) ELSE NonePub

\* entries[:max_items]
Prefix(s, n) == SubSeq(s, 1, IF n < Len(s) THEN n ELSE Len(s))

RECURSIVE RssLoop(_, _)
RssLoop(feed, entries) ==
    IF entries = <<>> THEN <<>>
    ELSE LET e == Head(entries)
             link == canonicalize_url(e.link)
         IN  IF IsEmptyStr(link) THEN RssLoop(feed, Tail(entries))
             ELSE <<[id |-> sha1(feed.id, link), title |-> clean_html(e.title),
                     link |-> link, published |-> PublishedOf(e.pub),
                     source_id |-> feed.id, source |-> feed.name,
                     weight |-> feed.weight]>>
                  \o RssLoop(feed, Tail(entries))

\* parse_rss on the entries feedparser.parse returned.
parse_rss(feed, entries, max_items) == RssLoop(feed, Prefix(entries, max_items))

\* The sitemap adapter's loop over one child's <url> nodes; it stops once
\* len(out) >= max_items holds after an append.
RECURSIVE UrlLoop(_, _, _, _)
UrlLoop(feed, urls, out, max_items) ==
    IF urls = <<>> THEN out
    ELSE LET e == Head(urls)
             link == e.link
             title == Strip(e.title)
         IN  IF IsEmptyStr(link) \/ title = <<>>
             THEN UrlLoop(feed, Tail(urls), out, max_items)
             ELSE LET out2 == Append(out,
                                [id |-> sha1(feed.id, link), title |-> title,
                                 link |-> canonicalize_url(link),
                                 published |-> PublishedOf(e.pub),
                                 source_id |-> feed.id, source |-> feed.name,
                                 weight |-> feed.weight])
                  IN  IF Len(out2) >= max_items THEN out2
                      ELSE UrlLoop(feed, Tail(urls), out2, max_items)

\* The loop over the child sitemaps.  A child whose fetch or parse raises is
\* passed over; fetched records the children the loop asked for.
RECURSIVE ChildLoop(_, _, _, _, _)
ChildLoop(feed, sitemaps, out, fetched, max_items) ==
    IF sitemaps = <<>> THEN [items |-> out, fetched |-> fetched]
    ELSE LET c == Head(sitemaps)
             asked == Append(fetched, c.loc)
         IN  IF ~c.ok THEN ChildLoop(feed, Tail(sitemaps), out, asked, max_items)
             ELSE LET out2 == UrlLoop(feed, c.urls, out, max_items)
                  IN  IF Len(out2) >= max_items
                      THEN [items |-> out2, fetched |-> asked]
                      ELSE ChildLoop(feed, Tail(sitemaps), out2, asked, max_items)

\* sitemaps.sort(key=lastmod or the epoch, reverse=True): stable.
RECURSIVE InsertChild(_, _)
InsertChild(sorted, c) ==
    IF sorted = <<>> THEN <<c>>
    ELSE IF Head(sorted).lm < c.lm THEN <<c>> \o sorted
    ELSE <<Head(sorted)>> \o InsertChild(Tail(sorted), c)

RECURSIVE SortChildren(_, _)
SortChildren(cs, sorted) ==
    IF cs = <<>> THEN sorted
    ELSE SortChildren(Tail(cs), InsertChild(sorted, Head(cs)))

MaxChildSitemaps == 6

\* parse_reuters_news_sitemap_index once the index is fetched and parsed:
\* children without <loc> are left out, the rest sorted, the first 6 read.
parse_reuters_news_sitemap_index(feed, children, max_items) ==
    LET sitemaps == SortChildren(SelectSeq(children, LAMBDA c : c.loc # ""), <<>>)
    IN  ChildLoop(feed, Prefix(sitemaps, MaxChildSitemaps), <<>>, <<>>, max_items)

(***************************************************************************)
(* Unit specification of the adapters: any short entry list, any short     *)
(* list of child sitemaps, any small max_items.                            *)
(***************************************************************************)
RawEntries ==
    [link : {UrlPlain, UrlTracked, EmptyUrl}, title : {TitleX, <<" ">>},
     pub : {NonePub}]

ChildDocs ==
    { [loc |-> "c/new", lm |-> 2, ok |-> TRUE,
       urls |-> <<[link |-> UrlTracked, title |-> TitleX, pub |-> IsoPub(Now)]>>],
      [loc |-> "c/undated", lm |-> Epoch, ok |-> TRUE,
       urls |-> <<[link |-> UrlPlain, title |-> TitleXLoose, pub |-> BadPub],
                  [link |-> UrlOther, title |-> <<" ">>, pub |-> NonePub],
                  [link |-> UrlOther, title |-> TitleLocal, pub |-> NonePub]>>],
      [loc |-> "c/down", lm |-> 1, ok |-> FALSE, urls |-> <<>>],
      [loc |-> "", lm |-> 2, ok |-> TRUE,
       urls |-> <<[link |-> UrlOther, title |-> TitleLocal, pub |-> NonePub]>>] }

InitAdapters ==
    /\ UnitIdle
    /\ pc = "call"
    /\ \/ inp \in [fn : {"parse_rss"}, feed : {FeedA},
                   entries : SeqsUpTo(RawEntries, MaxEntries), children : {<<>>},
                   max_items : 0..MaxItemsArg]
       \/ inp \in [fn : {"parse_reuters_news_sitemap_index"}, feed : {FeedR},
                   entries : {<<>>}, children : SeqsUpTo(ChildDocs, MaxChildren),
                   max_items : 0..MaxItemsArg]
    /\ outp = [items |-> <<>>, fetched |-> <<>>]

RunParseRss ==
    /\ pc = "call" /\ inp.fn = "parse_rss"
    /\ pc' = "ret"
    /\ outp' = [items |-> parse_rss(inp.feed, inp.entries, inp.max_items),
                fetched |-> <<>>]
    /\ UNCHANGED <<inp, main_vars>>

RunParseSitemap ==
    /\ pc = "call" /\ inp.fn = "parse_reuters_news_sitemap_index"
    /\ pc' = "ret"
    /\ outp' = parse_reuters_news_sitemap_index(inp.feed, inp.children, inp.max_items)
    /\ UNCHANGED <<inp, main_vars>>

SpecAdapters == InitAdapters /\ [][RunParseRss \/ RunParseSitemap]_vars

\* C6: every item either adapter returns has the id sha1(source id | the
\* item's own canonical link), so two items of one source have the same id
\* iff they have the same link field.
C6_IdOfCanonicalLink ==
    pc = "ret" =>
        /\ \A n \in DOMAIN outp.items :
              outp.items[n].id = sha1(inp.feed.id, outp.items[n].link)
        /\ \A n, k \in DOMAIN outp.items :
              (outp.items[n].id = outp.items[k].id) <=> (outp.items[n].link = outp.items[k].link)

\* C7: for every max_items >= 0 both adapters return at most max_items
\* items, in the order of the document; the sitemap adapter asks for no
\* child after max_items items are gathered and for at most 6 children.
C7_AtMostMaxItems ==
    pc = "ret" =>
        /\ Len(outp.items) <= inp.max_items
        /\ Len(outp.fetched) <= MaxChildSitemaps

(***************************************************************************)
(* build_topics: the clustering loop.                                      *)
(***************************************************************************)
Max2(a, b) == IF a >= b THEN a ELSE b

\* The inner loop `for c in clusters`: the index of the first cluster whose
\* tokens are similar enough, 0 when the loop ends without a break.
RECURSIVE FirstFitFrom(_, _, _)
FirstFitFrom(cs, toks, j) ==
    IF j > Len(cs) THEN 0
    ELSE IF AtLeastThreshold(jaccard(toks, cs[j].tokens)) THEN j
    ELSE FirstFitFrom(cs, toks, j + 1)

\* The best-matching cluster among those similar enough, 0 when there is none.
BestFit(cs, toks) ==
    LET Q == {j \in DOMAIN cs : AtLeastThreshold(jaccard(toks, cs[j].tokens))}
        Better(i, j) ==
            jaccard(toks, cs[i].tokens)[1] * jaccard(toks, cs[j].tokens)[2]
                > jaccard(toks, cs[j].tokens)[1] * jaccard(toks, cs[i].tokens)[2]
    IN  IF Q = {} THEN 0
        ELSE CHOOSE i \in Q : \A j \in Q : ~Better(j, i) /\ (Better(i, j) \/ i <= j)

FirstFit(cs, toks) == FirstFitFrom(cs, toks, 1)

\* A join that also takes a title as long as the headline.
Join_or_equal(c, it, toks) ==
    LET longer == TitleLen(it.title) >= TitleLen(c.headline)
    IN  [c EXCEPT !.items = Append(c.items, it.id),
                  !.sources = c.sources \cup {it.source},
                  !.max_weight = IF c.max_weight >= it.weight THEN c.max_weight
                                 ELSE it.weight,
                  !.headline = IF longer THEN it.title ELSE c.headline,
                  !.tokens = IF longer THEN toks ELSE c.tokens]

\* The body of the `if jaccard(...) >= 0.55` branch.
Join(c, it, toks) ==
    LET longer == TitleLen(it.title) > TitleLen(c.headline)
    IN  [c EXCEPT !.items = Append(c.items, it.id),
                  !.sources = c.sources \cup {it.source},
                  !.max_weight = Max2(c.max_weight, it.weight),
                  !.headline = IF longer THEN it.title ELSE c.headline,
                  !.tokens = IF longer THEN toks ELSE c.tokens]

\* The dict of the `if not assigned` branch.
NewCluster(it, toks) ==
    [id |-> sha1("topic", it.title), headline |-> it.title, tokens |-> toks,
     items |-> <<it.id>>, sources |-> {it.source}, max_weight |-> it.weight]

\* One pass of `for it in items`.
AssignItem(cs, it) ==
    LET toks == tokenize(it.title)
        j == FirstFit(cs, toks)
    IN  IF j = 0 THEN Append(cs, NewCluster(it, toks))
        ELSE [cs EXCEPT ![j] = Join(cs[j], it, toks)]

RECURSIVE AssignAll(_, _)
AssignAll(items, cs) ==
    IF items = <<>> THEN cs ELSE AssignAll(Tail(items), AssignItem(cs, Head(items)))

(***************************************************************************)
(* build_topics: score, rank, cut.                                         *)
(***************************************************************************)
\* id_to_item.get(iid): of the items sharing an id the dict holds the last.
Lookup(items, iid) ==
    LET at == {n \in DOMAIN items : items[n].id = iid}
    IN  items[CHOOSE n \in at : \A k \in at : k <= n]

\* The newest parseable published among the members, as <<found, hour>>.
RECURSIVE NewestOf(_, _, _)
NewestOf(ids, items, newest) ==
    IF ids = <<>> THEN newest
    ELSE LET p == Lookup(items, Head(ids)).published
         IN  IF p.k # "iso" THEN NewestOf(Tail(ids), items, newest)
             ELSE NewestOf(Tail(ids), items,
                           IF newest[1] THEN <<TRUE, Max2(newest[2], p.t)>>
                           ELSE <<TRUE, p.t>>)

\* cluster_score, as the exact fraction num / den, den > 0:
\*   count * (1 + 0.25 * (diversity - 1))  =  count * (3 + diversity) / 4
\*   recency = 1 / (1 + age_h / 12)        =  12 / (12 + age_h),  or 0.6 = 6 / 10
\*   0.9 + 0.1 * max_weight                =  (9 + max_weight) / 10
cluster_score(c, items) ==
    LET count == Len(c.items)
        diversity == Cardinality(c.sources)
        newest == NewestOf(c.items, items, <<FALSE, 0>>)
        age_h == Max2(0, Now - newest[2])
        recency == IF newest[1] THEN <<12, 12 + age_h>> ELSE <<6, 10>>
    IN  [num |-> count * (3 + diversity) * recency[1] * (9 + c.max_weight),
         den |-> 4 * recency[2] * 10]

ScoreLess(a, b) == a.num * b.den < b.num * a.den

\* clusters.sort(key=score, reverse=True): stable.
RECURSIVE InsertByScore(_, _)
InsertByScore(sorted, c) ==
    IF sorted = <<>> THEN <<c>>
    ELSE IF ScoreLess(Head(sorted).score, c.score) THEN <<c>> \o sorted
    ELSE <<Head(sorted)>> \o InsertByScore(Tail(sorted), c)

RECURSIVE SortByScore(_, _)
SortByScore(cs, sorted) ==
    IF cs = <<>> THEN sorted
    ELSE SortByScore(Tail(cs), InsertByScore(sorted, Head(cs)))

DefaultTopK == 10

OutputCap == 10

\* round(score, 4), in ten-thousandths.
Round4(score) == (2 * 10000 * score.num + score.den) \div (2 * score.den)

\* The tail of build_topics.  sorted(list(sources)) is determined by the set,
\* which the model's four feeds keep under the cap of 10.
RankTopics(cs, items) ==
    LET scored == [j \in DOMAIN cs |->
                     [c |-> cs[j], score |-> cluster_score(cs[j], items)]]
        ranked == Prefix(SortByScore(scored, <<>>), DefaultTopK)
    IN  [j \in DOMAIN ranked |->
            [id |-> ranked[j].c.id, headline |-> ranked[j].c.headline,
             count |-> Len(ranked[j].c.items), sources |-> ranked[j].c.sources,
             items |-> Prefix(ranked[j].c.items, OutputCap),
             score |-> Round4(ranked[j].score)]]

build_topics(items) == RankTopics(AssignAll(items, <<>>), items)

(***************************************************************************)
(* Unit specification of cluster_score: two clusters over the items of two *)
(* feeds, whose weights are whatever feeds.json gives (load_feeds takes    *)
(* any float).                                                             *)
(***************************************************************************)
ScoreWeights == {-19, -9, 0, DefaultWeight, 2}

ScorePubs == {NonePub, IsoPub(Now), IsoPub(Now - 12)}

\* Each item has a link of its own, so that dedupe keeps them all; the
\* members of the first cluster share one title, those of the second another.
ScoreLink(source_id, p) ==
    [ok |-> TRUE, base |-> IF source_id = "a" THEN "h/a" ELSE "h/b",
     query |-> IF p = NonePub THEN <<>>
               ELSE IF p = IsoPub(Now) THEN <<"id", "=", "id">>
               ELSE <<"id", "=", "+">>]

ScoreItems(wa, wb, title) ==
    {Item(f.id, f.weight, ScoreLink(f.id, p), ScoreLink(f.id, p), title, p) :
        f \in {[FeedA EXCEPT !.weight = wa], [FeedB EXCEPT !.weight = wb]},
        p \in ScorePubs}

\* The cluster build_topics makes of the members when they all join.
RECURSIVE ClusterOf(_)
ClusterOf(ms) ==
    IF Len(ms) = 1 THEN NewCluster(ms[1], tokenize(ms[1].title))
    ELSE Join(ClusterOf(SubSeq(ms, 1, Len(ms) - 1)), ms[Len(ms)],
              tokenize(ms[Len(ms)].title))

Distinct(ms) == \A i, j \in DOMAIN ms : i # j => ms[i] # ms[j]

MemberLists(S) == {ms \in SeqsUpTo(S, MaxClusterItems) : ms # <<>> /\ Distinct(ms)}

InitScore ==
    /\ UnitIdle
    /\ pc = "call"
    /\ \E wa, wb \in ScoreWeights :
         \E m1 \in MemberLists(ScoreItems(wa, wb, TitleX)),
            m2 \in MemberLists(ScoreItems(wa, wb, TitleLocal)) :
            inp = [items |-> m1 \o m2, c1 |-> ClusterOf(m1), c2 |-> ClusterOf(m2)]
    /\ outp = <<>>

RunScore ==
    /\ pc = "call"
    /\ pc' = "ret"
    /\ outp' = <<cluster_score(inp.c1, inp.items), cluster_score(inp.c2, inp.items)>>
    /\ UNCHANGED <<inp, main_vars>>

SpecScore == InitScore /\ [][RunScore]_vars

(***************************************************************************)
(* main.  One step per feed of the loop, then the filter, the dedupe, the  *)
(* sort, one step per item of build_topics' loop, and its tail.            *)
(*                                                                         *)
(* feedparser.parse answers a failed fetch in one of two ways: it catches  *)
(* the error and returns a result without entries ("bozo"), or the error   *)
(* leaves it ("raise").  fetch_text raises on every failed fetch.          *)
(***************************************************************************)
Feeds == <<FeedA, FeedB, FeedR, FeedX>>

DefaultMaxItemsPerFeed == 40

TitleA == <<"Fed", " ", "raises">>

TitleB == <<"Fed", " ", "<b>", "raises", " ", "rates", " ", "again">>

TitleXUpper == <<"FED", " ", "raises", " ", "rates">>

FeedEntries ==
    { [link |-> UrlPlain, title |-> TitleA, pub |-> IsoPub(Now)],
      [link |-> UrlOther, title |-> TitleB, pub |-> IsoPub(Now - 1)],
      [link |-> UrlTracked, title |-> TitleX, pub |-> IsoPub(Now - 2)],
      [link |-> UrlOther, title |-> TitleXUpper, pub |-> BadPub],
      [link |-> UrlOther, title |-> TitleLocal, pub |-> IsoPub(Now - 8 * HoursPerDay)] }

RssFetches ==
    [outcome : {"ok"}, entries : SeqsUpTo(FeedEntries, MaxFeedEntries), error : {""}]
    \cup [outcome : {"bozo", "raise"}, entries : {<<>>}, error : {"timed out"}]

MainChildDocs ==
    { [loc |-> "c/new", lm |-> 2, ok |-> TRUE,
       urls |-> <<[link |-> UrlTracked, title |-> TitleXLoose, pub |-> IsoPub(Now - 2)]>>],
      [loc |-> "c/down", lm |-> 1, ok |-> FALSE, urls |-> <<>>] }

SitemapFetches ==
    [index_ok : {TRUE}, children : SeqsUpTo(MainChildDocs, MaxFeedEntries), error : {""}]
    \cup [index_ok : {FALSE}, children : {<<>>}, error : {"404"}]

Init ==
    /\ pc = "fetch"
    /\ max_age_days = DefaultMaxAgeDays
    /\ max_items_per_feed \in {1, DefaultMaxItemsPerFeed}
    /\ fi = 1
    /\ all_items = <<>>
    /\ failures = <<>>
    /\ batches = <<>>
    /\ fetch_err = {}
    /\ clusters = <<>>
    /\ members = <<>>
    /\ ci = 0
    /\ topics = <<>>
    /\ inp = <<>>
    /\ outp = <<>>

\* The end of one pass of `for f in feeds`.
NextFeed(items, failed, erred) ==
    /\ all_items' = all_items \o items
    /\ batches' = Append(batches, items)
    /\ failures' = IF failed = "" THEN failures
                   ELSE Append(failures,
                               [feed |-> Feeds[fi].id, url |-> Feeds[fi].url,
                                error |-> failed])
    /\ fetch_err' = IF erred THEN fetch_err \cup {fi} ELSE fetch_err
    /\ fi' = fi + 1
    /\ pc' = IF fi = Len(Feeds) THEN "filter" ELSE "fetch"
    /\ UNCHANGED <<max_age_days, max_items_per_feed, clusters, members, ci, topics,
                   inp, outp>>

FetchRss ==
    /\ pc = "fetch" /\ Feeds[fi].type = "rss"
    /\ \E r \in RssFetches :
          IF r.outcome = "raise" THEN NextFeed(<<>>, r.error, TRUE)
          ELSE NextFeed(parse_rss(Feeds[fi], r.entries, max_items_per_feed), "",
                        r.outcome = "bozo")

FetchSitemap ==
    /\ pc = "fetch" /\ Feeds[fi].type = "reuters_news_sitemap_index"
    /\ \E d \in SitemapFetches :
          IF ~d.index_ok THEN NextFeed(<<>>, d.error, TRUE)
          ELSE LET r == parse_reuters_news_sitemap_index(Feeds[fi], d.children,
                                                         max_items_per_feed)
               IN  NextFeed(r.items, "",
                            \E n \in DOMAIN d.children :
                               ~d.children[n].ok /\ d.children[n].loc \in Range(r.fetched))

FetchOther ==
    /\ pc = "fetch"
    /\ Feeds[fi].type \notin {"rss", "reuters_news_sitemap_index"}
    /\ NextFeed(<<>>, "", FALSE)

FilterStep ==
    /\ pc = "filter"
    /\ all_items' = filter_by_age(all_items, max_age_days)
    /\ pc' = "dedupe"
    /\ UNCHANGED <<max_age_days, max_items_per_feed, fi, failures, batches, fetch_err,
                   clusters, members, ci, topics, inp, outp>>

DedupeStep ==
    /\ pc = "dedupe"
    /\ all_items' = dedupe(all_items)
    /\ pc' = "sort"
    /\ UNCHANGED <<max_age_days, max_items_per_feed, fi, failures, batches, fetch_err,
                   clusters, members, ci, topics, inp, outp>>

SortStep ==
    /\ pc = "sort"
    /\ all_items' = sort_items(all_items)
    /\ pc' = "topics"
    /\ ci' = 1
    /\ UNCHANGED <<max_age_days, max_items_per_feed, fi, failures, batches, fetch_err,
                   clusters, members, topics, inp, outp>>

\* One pass of build_topics' `for it in items`; members notes where the item
\* went.
AssignStep ==
    /\ pc = "topics" /\ ci <= Len(all_items)
    /\ clusters' = AssignItem(clusters, all_items[ci])
    /\ LET j == FirstFit(clusters, tokenize(all_items[ci].title))
       IN  members' = IF j = 0 THEN Append(members, <<ci>>)
                      ELSE [members EXCEPT ![j] = Append(members[j], ci)]
    /\ ci' = ci + 1
    /\ UNCHANGED <<pc, max_age_days, max_items_per_feed, fi, all_items, failures,
                   batches, fetch_err, topics, inp, outp>>

\* build_topics' tail; main then writes items, topics and failures out.
RankStep ==
    /\ pc = "topics" /\ ci > Len(all_items)
    /\ topics' = RankTopics(clusters, all_items)
    /\ pc' = "done"
    /\ UNCHANGED <<max_age_days, max_items_per_feed, fi, all_items, failures, batches,
                   fetch_err, clusters, members, ci, inp, outp>>

Next ==
    \/ FetchRss
    \/ FetchSitemap
    \/ FetchOther
    \/ FilterStep
    \/ DedupeStep
    \/ SortStep
    \/ AssignStep
    \/ RankStep

Spec == Init /\ [][Next]_vars

(***************************************************************************)
(* Claims about the pure functions.                                        *)
(***************************************************************************)
\* The n-th smallest element of a set of positions.
Nth(K, n) == CHOOSE i \in K : Cardinality({j \in K : j <= i}) = n

\* s restricted to the positions K, in order.
Restrict(s, K) == [n \in 1..Cardinality(K) |-> s[Nth(K, n)]]

\* The key the deduplicator is said to compare: the canonicalized link and
\* the lowercased, whitespace-collapsed title.
ClaimedKey(it) == <<canonicalize_url(it.link), NormTitle(it.title)>>

FirstOfKey(items) ==
    {i \in DOMAIN items : \A j \in 1..(i - 1) : ClaimedKey(items[j]) # ClaimedKey(items[i])}

\* C1: dedupe returns the subsequence of its input that holds exactly the
\* first item of each key; a later item of the same key is dropped whatever
\* its source, and items of different keys survive in their input order.
C1_DedupeFirstOfKey ==
    (pc = "ret" /\ inp.fn = "dedupe") =>
        /\ outp = Restrict(inp.items, FirstOfKey(inp.items))
        /\ \A i, j \in DOMAIN inp.items :
              (i < j /\ ClaimedKey(inp.items[i]) = ClaimedKey(inp.items[j])
                     /\ inp.items[i].source # inp.items[j].source)
              => Cardinality({n \in DOMAIN outp : ClaimedKey(outp[n]) = ClaimedKey(inp.items[j])}) = 1

\* A run of dedupe that drops a republication by another source (a tracked
\* link, a loosely spaced lowercase title) and keeps an item of another key.
C1_Witness ==
    /\ pc = "ret" /\ inp.fn = "dedupe"
    /\ Len(inp.items) = 3 /\ Len(outp) = 2
    /\ \E i, j \in DOMAIN inp.items :
          /\ i < j
          /\ inp.items[i].source # inp.items[j].source
          /\ inp.items[i].link # inp.items[j].link
          /\ inp.items[i].title # inp.items[j].title
          /\ ClaimedKey(inp.items[i]) = ClaimedKey(inp.items[j])
          /\ outp[1] = inp.items[i]

\* The query parameters a URL's text shows.
QueryParams(url) == parse_qsl(url.query)

NoTrackingParam(url) ==
    \A n \in DOMAIN QueryParams(url) :
        LET k == QueryParams(url)[n].k
        IN  ~(k # <<>> /\ Lower(k[1]) \in {"utm_", "spm", "from", "share", "mkt_", "mc_"})

NonTracking(q) ==
    SelectSeq(q, LAMBDA p :
        ~(p.k # <<>> /\ Lower(p.k[1]) \in {"utm_", "spm", "from", "share", "mkt_", "mc_"}))

C5_FilterKeepsIff ==
    (pc = "ret" /\ inp.fn = "filter_by_age") =>
        outp = Restrict(inp.items,
                        {i \in DOMAIN inp.items :
                            \/ inp.items[i].published.k = "none"
                            \/ inp.items[i].published.k = "bad"
                            \/ inp.items[i].published.t >= Now - inp.days * HoursPerDay})

\* A run of filter_by_age that keeps an item exactly at the cutoff and an
\* unparseable one and drops an item one hour older than the cutoff.
C5_Witness ==
    /\ pc = "ret" /\ inp.fn = "filter_by_age" /\ inp.days = DefaultMaxAgeDays
    /\ Len(inp.items) = 3 /\ Len(outp) = 2
    /\ inp.items[1].published = IsoPub(Now - DefaultMaxAgeDays * HoursPerDay - 1)
    /\ inp.items[2].published = IsoPub(Now - DefaultMaxAgeDays * HoursPerDay)
    /\ inp.items[3].published = BadPub
    /\ outp = <<inp.items[2], inp.items[3]>>

(***************************************************************************)
(* Claims about main and build_topics.                                     *)
(***************************************************************************)
\* C2: every processed feed one of whose fetches failed is in the failure
\* list with its id and url and added nothing to the pool, and the run goes
\* on until the item list, the topic list and the failure list are made.
C2_FailedFeedRecorded ==
    /\ \A i \in DOMAIN batches :
          i \in fetch_err =>
              /\ \E n \in DOMAIN failures :
                    failures[n].feed = Feeds[i].id /\ failures[n].url = Feeds[i].url
              /\ batches[i] = <<>>
    /\ pc # "done" => ENABLED Next

\* filter, dedupe, sort and clustering on one pool.
Pipeline(pool, days) ==
    LET sorted == sort_items(dedupe(filter_by_age(pool, days)))
    IN  [items |-> sorted, topics |-> build_topics(sorted)]

Perms(n) == {f \in [1..n -> 1..n] : \A i, j \in 1..n : i # j => f[i] # f[j]}

Pooled(f) == Concat([i \in DOMAIN batches |-> batches[f[i]]])

\* C3 as stated: whatever the order in which the feeds' batches are pooled,
\* the item list and the topic list come out the same.
C3_AsStated ==
    pc = "done" =>
        \A f \in Perms(Len(batches)) :
            Pipeline(Pooled(f), max_age_days) = [items |-> all_items, topics |-> topics]

NoSharedKey(pool) ==
    \A i, j \in DOMAIN pool :
        i # j => /\ ClaimedKey(pool[i]) # ClaimedKey(pool[j])
                 /\ sort_key(pool[i]) # sort_key(pool[j])

\* C3, amended: when no two pooled items share a dedupe key or a
\* (published, weight) sort key, the item list and the topic list do not
\* depend on the order in which the feeds' batches are pooled.
C3_OrderFreeWithoutTies ==
    (pc = "done" /\ NoSharedKey(Concat(batches))) =>
        \A f \in Perms(Len(batches)) :
            Pipeline(Pooled(f), max_age_days) = [items |-> all_items, topics |-> topics]

\* A finished run without ties in which three feeds added items, four in
\* all, and the sort moved one of them.
C3_Witness ==
    /\ pc = "done"
    /\ NoSharedKey(Concat(batches))
    /\ Cardinality({i \in DOMAIN batches : batches[i] # <<>>}) = 3
    /\ Len(all_items) >= 4
    /\ all_items # dedupe(filter_by_age(Concat(batches), max_age_days))

\* The titles of the items assigned to cluster j, in the order assigned.
MemberTitles(j) == [k \in DOMAIN members[j] |-> all_items[members[j][k]].title]

\* The first of the longest titles.
FirstLongest(titles) ==
    titles[Min({k \in DOMAIN titles :
                  \A m \in DOMAIN titles : TitleLen(titles[m]) <= TitleLen(titles[k])})]

HeadlineIsFirstLongest ==
    \A j \in DOMAIN clusters :
        /\ clusters[j].headline = FirstLongest(MemberTitles(j))
        /\ Range(clusters[j].tokens) = Range(tokenize(clusters[j].headline))

HeadlineChangesOnlyOnLongerJoin ==
    \A j \in DOMAIN clusters :
        (clusters'[j].headline # clusters[j].headline
            \/ clusters'[j].tokens # clusters[j].tokens)
        => /\ members'[j] = Append(members[j], ci)
           /\ TitleLen(all_items[ci].title) > TitleLen(clusters[j].headline)

\* C9: at every point of build_topics' loop each cluster's headline is the
\* first-assigned of the longest titles among its items and its tokens are
\* the tokens of that headline; headline and tokens change only when an item
\* with a strictly longer title joins.
C9_HeadlineLongest == []HeadlineIsFirstLongest /\ [][HeadlineChangesOnlyOnLongerJoin]_vars

\* A cluster of three whose headline moved from its first title to a longer
\* one and then stayed when a different title of the same length joined.
C9_Witness ==
    \E j \in DOMAIN clusters :
        /\ Len(members[j]) = 3
        /\ clusters[j].headline = MemberTitles(j)[2]
        /\ TitleLen(MemberTitles(j)[1]) < TitleLen(MemberTitles(j)[2])
        /\ TitleLen(MemberTitles(j)[3]) = TitleLen(MemberTitles(j)[2])
        /\ MemberTitles(j)[3] # MemberTitles(j)[2]

\* The similarity the clusterer is said to use, and its threshold.
Similar(a, b) ==
    /\ a # {} /\ b # {}
    /\ 100 * Cardinality(a \cap b) >= 55 * Cardinality(a \cup b)

Qualifying(toks) == {j \in DOMAIN clusters : Similar(toks, Range(clusters[j].tokens))}

AssignedFirstFit ==
    (pc = "topics" /\ ci' = ci + 1) =>
        LET it == all_items[ci]
            Q == Qualifying(Range(tokenize(it.title)))
            n == Len(clusters)
        IN  IF Q # {}
            THEN /\ Len(clusters') = n
                 /\ members' = [members EXCEPT ![Min(Q)] = Append(@, ci)]
                 /\ clusters'[Min(Q)].items = Append(clusters[Min(Q)].items, it.id)
                 /\ \A j \in DOMAIN clusters : j # Min(Q) => clusters'[j] = clusters[j]
            ELSE /\ Len(clusters') = n + 1
                 /\ members' = Append(members, <<ci>>)
                 /\ clusters'[n + 1].items = <<it.id>>
                 /\ clusters'[n + 1].headline = it.title
                 /\ \A j \in DOMAIN clusters : clusters'[j] = clusters[j]

\* C10: each item, in sorted order, joins exactly one cluster: the
\* earliest-created one whose current tokens have Jaccard similarity >= 0.55
\* with the item's (0 when either set is empty), and a new cluster is
\* appended iff none qualifies; a later, better match is never preferred.
C10_FirstFit == [][AssignedFirstFit]_vars

\* The third item sits in the first cluster although, when it came, the
\* second cluster matched it better (3/4 against 2/3).
C10_Witness ==
    /\ pc = "topics" /\ ci = 4
    /\ Len(clusters) = 2
    /\ members = <<<<1, 3>>, <<2>>>>
    /\ LET t1 == Range(tokenize(all_items[1].title))
           t2 == Range(tokenize(all_items[2].title))
           t3 == Range(tokenize(all_items[3].title))
       IN  /\ Similar(t3, t1) /\ Similar(t3, t2) /\ ~Similar(t2, t1)
           /\ Cardinality(t3 \cap t2) * Cardinality(t3 \cup t1)
                 > Cardinality(t3 \cap t1) * Cardinality(t3 \cup t2)

(***************************************************************************)
(* The claim about cluster_score.                                          *)
(***************************************************************************)
\* The newest parseable published of a cluster's members, by the member
\* lists the two clusters were made of.
MemberPubs(c) ==
    {inp.items[n].published.t :
        n \in {k \in DOMAIN inp.items :
                  inp.items[k].id \in Range(c.items) /\ inp.items[k].published.k = "iso"}}

SameNewest(a, b) ==
    \/ MemberPubs(a) = {} /\ MemberPubs(b) = {}
    \/ /\ MemberPubs(a) # {} /\ MemberPubs(b) # {}
       /\ \E t \in MemberPubs(a) \cap MemberPubs(b) :
             \A u \in MemberPubs(a) \cup MemberPubs(b) : u <= t

Older(a, b) ==
    /\ MemberPubs(a) # {} /\ MemberPubs(b) # {}
    /\ \E t \in MemberPubs(b) : \A u \in MemberPubs(a) : u < t

ScoreMonotone(a, sa, b, sb) ==
    /\ (Len(a.items) = Len(b.items) /\ SameNewest(a, b) /\ a.max_weight = b.max_weight
            /\ Cardinality(a.sources) > Cardinality(b.sources))
       => sa.num * sb.den > sb.num * sa.den
    /\ (Len(a.items) = Len(b.items) /\ Cardinality(a.sources) = Cardinality(b.sources)
            /\ a.max_weight = b.max_weight /\ Older(a, b))
       => sa.num * sb.den < sb.num * sa.den

\* C8: of two clusters equal in member count, newest timestamp and
\* max_weight the one with more sources scores strictly higher, and of two
\* equal in member count, source count and max_weight the one whose newest
\* member is older scores strictly lower.
C8_ScoreStrictlyMonotone ==
    pc = "ret" =>
        /\ ScoreMonotone(inp.c1, outp[1], inp.c2, outp[2])
        /\ ScoreMonotone(inp.c2, outp[2], inp.c1, outp[1])

====
